---- MODULE Spec2Model ----
(***************************************************************************)
(* State-machine model of the tunnel relay: the path-addressing relay of   *)
(* src/server.js and the subdomain-addressing relay of part_000.           *)
(*                                                                         *)
(* Every handler of the relay runs to completion on the single event loop, *)
(* so each handler is one action.  Tunnel entries and HTTP responses are   *)
(* JavaScript objects captured by closures (the deadline timer and the     *)
(* finish handler keep the entry they were created for), therefore entries *)
(* live in a heap (tunnelObjs) and the registry (tunnels) maps identifiers *)
(* to heap references.                                                     *)
(*                                                                         *)
(* Time: now is Date.now().  The clock moves from one timer's due time to  *)
(* the next, and a callback that is due runs before the clock moves on;    *)
(* any number of other events may happen at one instant, in any order.     *)
(* The 'finish' event of a completed response may be delivered at any      *)
(* later point.  A connection delivers frames only while its socket is     *)
(* OPEN; frames that arrive during a closing handshake are left out.       *)
(*                                                                         *)
(* A response frame carries no correlation id.  The field answers of a     *)
(* client frame and the field reply of a request record which request the  *)
(* client meant to answer; no handler reads them.  The variable heard is   *)
(* history as well: it tells from which connections a frame was handled at *)
(* the present instant.                                                    *)
(*                                                                         *)
(* The second half of the module models the subdomain-addressing relay,    *)
(* src/unnamed/part_000, with actions of its own (Host...) over the same   *)
(* clock, connections and public requests; its Map and its targetTunnel    *)
(* objects are the variables hostTunnels and targetTunnel, which the       *)
(* actions of the path-addressing relay leave alone.                       *)
(***************************************************************************)
EXTENDS Integers, Sequences, FiniteSets, TLC

\* ------------------------------------------------------------------ bounds
MaxConns == 3      \* websocket connections accepted during a run
MaxTunnels == 3    \* registry entries created during a run
MaxReqs == 2       \* public HTTP requests received during a run
MaxSweeps == 6     \* reaper periods of the long clock (SpecReaper, SpecStale)
ShortPeriods == 1  \* reaper periods of the short clock
OneConn == 1       \* connections of the one-client specifications
TwoConns == 2      \* connections of the two-client specification
OneReq == 1        \* public requests of the one-request specifications

\* ------------------------------------------------------- program constants
RequestTimeout == 30000                  \* setTimeout(..., 30000)
SweepInterval == 60000                   \* setInterval(..., 60000)
inactiveThreshold == 5 * 60 * 1000       \* 5 minutes

Conns == 1..MaxConns
MaxTime == MaxSweeps * SweepInterval

\* -------------------------------------------------- identifiers and URLs
\* Strings are sequences of one-character strings.
Lower == {"a","b","c","d","e","f","g","h","i","j","k","l","m",
          "n","o","p","q","r","s","t","u","v","w","x","y","z"}
Upper == {"A","B","C","D","E","F","G","H","I","J","K","L","M",
          "N","O","P","Q","R","S","T","U","V","W","X","Y","Z"}
Digit == {"0","1","2","3","4","5","6","7","8","9"}
\* the character class [a-zA-Z0-9-] of the proxy handler's URL pattern
IdChars == Lower \cup Upper \cup Digit \cup {"-"}

NoName == << >>                          \* data.subdomain absent or ''
\* names a client asks for in a register frame
RequestedNames == { <<"f", "0">>, <<"b", "_">> }
\* values of uuidv4().substring(0, 8), shortened to two hex digits
UuidPrefixes == { <<"f", "0">> }
AllIds == RequestedNames \cup UuidPrefixes

\* originalUrl of the public requests
Urls == { <<"/","t","/","f","0","/","x">>,
          <<"/","t","/","b","_","/","x">> }

NoMatch == [matched |-> FALSE, id |-> << >>, rest |-> << >>]

\* length of the longest run of IdChars of s that starts at position i
RECURSIVE IdRun(_, _)
IdRun(s, i) ==
  IF i <= Len(s) /\ s[i] \in IdChars THEN 1 + IdRun(s, i + 1) ELSE 0

\* req.originalUrl.match(/^\/t\/([a-zA-Z0-9-]+)(\/.*)?$/), with
\* remainingUrl = match[2] || '/'
UrlMatch(url) ==
  IF Len(url) < 4 \/ SubSeq(url, 1, 3) # <<"/", "t", "/">> THEN NoMatch
  ELSE LET k == IdRun(url, 4)
       IN  IF k = 0 THEN NoMatch
           ELSE IF 3 + k = Len(url)
             THEN [matched |-> TRUE, id |-> SubSeq(url, 4, 3 + k), rest |-> <<"/">>]
           ELSE IF url[4 + k] = "/"
             THEN [matched |-> TRUE, id |-> SubSeq(url, 4, 3 + k),
                   rest |-> SubSeq(url, 4 + k, Len(url))]
           ELSE NoMatch

\* ------------------------------------------------------------------ state
VARIABLES
  now,          \* Date.now()
  nextSweep,    \* time at which the setInterval callback is next due
  readyState,   \* ws.readyState of each connection ("NONE" before it connects)
  wsTunnelId,   \* ws.tunnelId of each connection (NoName while undefined)
  tunnels,      \* the Map: registered identifier -> reference into tunnelObjs
  tunnelObjs,   \* heap of tunnel entries {socket, lastActivity, pendingResponse}
  reqs,         \* the public requests received so far, with their res objects
  sent,         \* the frames the relay has written to channels so far
  heard,        \* history: a frame of the connection arrived at the instant now
  hostTunnels,  \* part_000: the Map, keyed by the tunnelId of each connection
  targetTunnel  \* part_000: the targetTunnel object of each public request

vars == <<now, nextSweep, readyState, wsTunnelId, tunnels, tunnelObjs, reqs,
          sent, heard, hostTunnels, targetTunnel>>

\* the state of the path-addressing relay only, of the subdomain-addressing
\* relay only
pathVars == <<wsTunnelId, tunnels, tunnelObjs>>
hostVars == <<hostTunnels, targetTunnel>>

NoRes == 0          \* pendingResponse null / deleted
NoTunnel == 0       \* the request never resolved a tunnel entry
Unsolicited == -1   \* a response frame that answers no request

\* part_000: the place of a connection that has no entry in the Map
NoEntry == [socket |-> 0, subdomain |-> << >>, lastActivity |-> 0,
            pendingResponse |-> NoRes]

\* frames of the client, as ws.on('message') sees them after JSON.parse
NoFrame == [type |-> "none", subdomain |-> NoName, answers |-> Unsolicited,
            statusCode |-> 0, headersOk |-> TRUE]
RegisterFrames ==
  { [NoFrame EXCEPT !.type = "register", !.subdomain = s] :
      s \in RequestedNames \cup {NoName} }
\* statusCode 0 stands for an absent statusCode; headersOk = FALSE is a frame
\* whose headers make res.setHeader throw.  The frames that answer a request
\* come with either status; the others are one plain and one with bad headers.
StatusCodes == {0, 201}
ResponseFrames ==
  { [NoFrame EXCEPT !.type = "response", !.answers = a, !.statusCode = sc] :
      a \in 1..MaxReqs, sc \in StatusCodes }
  \cup
  { [NoFrame EXCEPT !.type = "response"],
    [NoFrame EXCEPT !.type = "response", !.headersOk = FALSE] }
OtherFrames == { [NoFrame EXCEPT !.type = "ping"],
                 [NoFrame EXCEPT !.type = "malformed"] }
ClientFrames == RegisterFrames \cup ResponseFrames \cup OtherFrames

\* frames the relay writes to a channel
ErrorFrame(c, id) == [conn |-> c, type |-> "error", tunnelId |-> id, req |-> 0]
RegisteredFrame(c, id) == [conn |-> c, type |-> "registered", tunnelId |-> id, req |-> 0]
RequestFrame(c, r) == [conn |-> c, type |-> "request", tunnelId |-> NoName, req |-> r]

\* tunnels.has(id) / tunnels.get(id)
Has(id) == id \in DOMAIN tunnels /\ tunnels[id] # NoTunnel
\* tunnels.get that falls back to some registered entry for an unknown id
TunnelOfDefault(id) ==
  IF Has(id) THEN tunnels[id]
  ELSE IF \E k \in DOMAIN tunnels : tunnels[k] # NoTunnel
    THEN tunnels[CHOOSE k \in DOMAIN tunnels : tunnels[k] # NoTunnel]
    ELSE NoTunnel

TunnelOf(id) == IF Has(id) THEN tunnels[id] ELSE NoTunnel

\* ws.close(): starts the closing handshake of an open socket
WsClose(rs) == IF rs = "OPEN" THEN "CLOSING" ELSE rs
\* ws.terminate(): destroys the socket
WsTerminate(rs) == IF rs \in {"OPEN", "CLOSING"} THEN "CLOSING" ELSE rs

headersSent(rq) == rq.writes > 0

\* a completing call on an HTTP response (res.send / res.end / res.json after
\* res.status(code)); the first one fixes the status the caller sees, and the
\* 'finish' event of a response that has a finish handler becomes due
Complete(rq, code, by, reply) ==
  [rq EXCEPT !.writes = @ + 1,
             !.status = IF rq.writes = 0 THEN code ELSE @,
             !.by = IF rq.writes = 0 THEN by ELSE @,
             !.reply = IF rq.writes = 0 THEN reply ELSE @,
             !.finish = IF rq.writes = 0 /\ rq.timer # "none" THEN "pending" ELSE @]

\* the try/catch of the response branch applied to the pending res
SendResponse(rq, data) ==
  IF data.headersOk
    THEN Complete(rq, IF data.statusCode = 0 THEN 200 ELSE data.statusCode,
                  "response", data.answers)
    ELSE \* res.setHeader threw: 500 unless the headers are already sent
         IF ~headersSent(rq) THEN Complete(rq, 500, "fallback", data.answers)
         ELSE rq

\* the client answers only request frames that were written to its channel
ClientMaySend(c, data) ==
  data.type = "response" /\ data.answers # Unsolicited =>
    /\ data.answers <= Len(reqs)
    /\ reqs[data.answers].forwarded
    /\ tunnelObjs[reqs[data.answers].target].socket = c

Init ==
  /\ now = 0
  /\ nextSweep = SweepInterval
  /\ readyState = [c \in Conns |-> "NONE"]
  /\ wsTunnelId = [c \in Conns |-> NoName]
  /\ tunnels = [id \in AllIds |-> NoTunnel]
  /\ tunnelObjs = << >>
  /\ reqs = << >>
  /\ sent = {}
  /\ heard = [c \in Conns |-> FALSE]
  /\ hostTunnels = [c \in Conns |-> NoEntry]
  /\ targetTunnel = << >>

\* ------------------------------------------------------- websocket side
\* wss.on('connection'): the handlers are attached, nothing is registered;
\* connections are accepted in the order of their numbers
Connect(c) ==
  /\ readyState[c] = "NONE"
  /\ \A d \in Conns : d < c => readyState[d] # "NONE"
  /\ readyState' = [readyState EXCEPT ![c] = "OPEN"]
  /\ UNCHANGED sent
  /\ UNCHANGED <<now, nextSweep, wsTunnelId, tunnels, tunnelObjs, reqs, heard>>
  /\ UNCHANGED hostVars

\* the name a register frame ends up asking for: data.subdomain, or a
\* generated one when it is falsy
RegisterName(data, uuid) ==
  IF data.subdomain = NoName THEN uuid ELSE data.subdomain

\* ws.on('message'), data.type === 'register'
RegisterBranch(c, data, uuid) ==
  LET tunnelId == RegisterName(data, uuid) IN
  IF Has(tunnelId)
    THEN \* already in use: error frame, ws.close(), return
         /\ sent' = sent \cup {ErrorFrame(c, tunnelId)}
         /\ readyState' = [readyState EXCEPT ![c] = WsClose(@)]
         /\ UNCHANGED <<wsTunnelId, tunnels, tunnelObjs, reqs>>
    ELSE /\ Len(tunnelObjs) < MaxTunnels
         /\ wsTunnelId' = [wsTunnelId EXCEPT ![c] = tunnelId]
         /\ tunnelObjs' = Append(tunnelObjs,
              [socket |-> c, lastActivity |-> now, pendingResponse |-> NoRes])
         /\ tunnels' = [tunnels EXCEPT ![tunnelId] = Len(tunnelObjs) + 1]
         /\ sent' = sent \cup {RegisteredFrame(c, tunnelId)}
         /\ UNCHANGED <<readyState, reqs>>

\* ws.on('message'), the part after the register branch
ResponseBranch(c, data) ==
  LET t == TunnelOf(wsTunnelId[c]) IN
  IF data.type = "response" /\ t # NoTunnel
    THEN LET res == tunnelObjs[t].pendingResponse IN
         /\ tunnelObjs' = [tunnelObjs EXCEPT ![t].lastActivity = now,
                                             ![t].pendingResponse = NoRes]
         /\ reqs' = IF res = NoRes THEN reqs
                    ELSE [reqs EXCEPT ![res] = SendResponse(@, data)]
         /\ UNCHANGED sent
         /\ UNCHANGED <<readyState, wsTunnelId, tunnels>>
    ELSE /\ UNCHANGED sent
         /\ UNCHANGED <<readyState, wsTunnelId, tunnels, tunnelObjs, reqs>>

\* Message with a handler that closes the channel on an unparseable frame
MessageStrict(c, data, uuid) ==
  /\ readyState[c] = "OPEN"
  /\ ClientMaySend(c, data)
  /\ IF data.type = "malformed"
       THEN /\ readyState' = [readyState EXCEPT ![c] = WsClose(@)]
            /\ UNCHANGED sent
            /\ UNCHANGED <<wsTunnelId, tunnels, tunnelObjs, reqs>>
       ELSE IF data.type = "register"
         THEN RegisterBranch(c, data, uuid)
         ELSE ResponseBranch(c, data)
  /\ heard' = [heard EXCEPT ![c] = TRUE]
  /\ UNCHANGED <<now, nextSweep>>
  /\ UNCHANGED hostVars

\* ws.on('message'): the whole handler, for one frame of the client
Message(c, data, uuid) ==
  /\ readyState[c] = "OPEN"
  /\ ClientMaySend(c, data)
  /\ IF data.type = "malformed"
       THEN \* JSON.parse throws, the outer catch logs
            /\ UNCHANGED sent
            /\ UNCHANGED <<readyState, wsTunnelId, tunnels, tunnelObjs, reqs>>
       ELSE IF data.type = "register"
         THEN RegisterBranch(c, data, uuid)
         ELSE ResponseBranch(c, data)
  /\ heard' = [heard EXCEPT ![c] = TRUE]
  /\ UNCHANGED <<now, nextSweep>>
  /\ UNCHANGED hostVars

\* the client closes the channel or the network drops it: the socket leaves
\* OPEN, the 'close' event follows later
ChannelDown(c) ==
  /\ readyState[c] = "OPEN"
  /\ readyState' = [readyState EXCEPT ![c] = "CLOSING"]
  /\ UNCHANGED sent
  /\ UNCHANGED <<now, nextSweep, wsTunnelId, tunnels, tunnelObjs, reqs, heard>>
  /\ UNCHANGED hostVars

\* ws.on('close')
CloseEvent(c) ==
  /\ readyState[c] = "CLOSING"
  /\ readyState' = [readyState EXCEPT ![c] = "CLOSED"]
  /\ tunnels' = IF wsTunnelId[c] # NoName /\ Has(wsTunnelId[c])
                  THEN [tunnels EXCEPT ![wsTunnelId[c]] = NoTunnel]
                  ELSE tunnels
  /\ UNCHANGED sent
  /\ UNCHANGED <<now, nextSweep, wsTunnelId, tunnelObjs, reqs, heard>>
  /\ UNCHANGED hostVars

\* ------------------------------------------------------------ HTTP side
NewRequest(url) ==
  [url |-> url, status |-> 0, by |-> "none", writes |-> 0, reply |-> 0,
   target |-> NoTunnel, forwarded |-> FALSE, timer |-> "none", due |-> 0,
   finish |-> "none"]

\* Request with the readyState test left out: a frame is written to a
\* channel that is not open
RequestUnchecked(url, sendOk) ==
  LET r == Len(reqs) + 1
      match == UrlMatch(url)
      t == IF match.matched THEN TunnelOf(match.id) ELSE NoTunnel
      rq == [NewRequest(url) EXCEPT !.target = t]
  IN
  /\ r <= MaxReqs
  /\ IF ~match.matched \/ t = NoTunnel
       THEN /\ sendOk
            /\ reqs' = Append(reqs, Complete(rq, 404, "router", 0))
            /\ UNCHANGED sent
            /\ UNCHANGED tunnelObjs
       ELSE IF sendOk
         THEN /\ tunnelObjs' = [tunnelObjs EXCEPT ![t].pendingResponse = r]
              /\ sent' = sent \cup {RequestFrame(tunnelObjs[t].socket, r)}
              /\ reqs' = Append(reqs, [rq EXCEPT !.forwarded = TRUE,
                                                 !.timer = "armed",
                                                 !.due = now + RequestTimeout])
         ELSE /\ tunnelObjs' = [tunnelObjs EXCEPT ![t].pendingResponse = NoRes]
              /\ UNCHANGED sent
              /\ reqs' = Append(reqs, Complete(rq, 502, "router", 0))
  /\ UNCHANGED <<now, nextSweep, readyState, wsTunnelId, tunnels, heard>>
  /\ UNCHANGED hostVars

\* app.use('*'): the proxy handler, for one public request; sendOk tells
\* whether targetTunnel.socket.send returns or throws
Request(url, sendOk) ==
  LET r == Len(reqs) + 1
      match == UrlMatch(url)
      t == IF match.matched THEN TunnelOf(match.id) ELSE NoTunnel
      rq == [NewRequest(url) EXCEPT !.target = t]
  IN
  /\ r <= MaxReqs
  /\ IF ~match.matched \/ t = NoTunnel
       THEN /\ sendOk
            /\ reqs' = Append(reqs, Complete(rq, 404, "router", 0))
            /\ UNCHANGED sent
            /\ UNCHANGED tunnelObjs
       ELSE IF readyState[tunnelObjs[t].socket] # "OPEN"
         THEN /\ sendOk
              /\ reqs' = Append(reqs, Complete(rq, 503, "router", 0))
              /\ UNCHANGED sent
              /\ UNCHANGED tunnelObjs
       ELSE IF sendOk
         THEN /\ tunnelObjs' = [tunnelObjs EXCEPT ![t].pendingResponse = r]
              /\ sent' = sent \cup {RequestFrame(tunnelObjs[t].socket, r)}
              /\ reqs' = Append(reqs, [rq EXCEPT !.forwarded = TRUE,
                                                 !.timer = "armed",
                                                 !.due = now + RequestTimeout])
         ELSE \* send threw: delete targetTunnel.pendingResponse, 502
              /\ tunnelObjs' = [tunnelObjs EXCEPT ![t].pendingResponse = NoRes]
              /\ UNCHANGED sent
              /\ reqs' = Append(reqs, Complete(rq, 502, "router", 0))
  /\ UNCHANGED <<now, nextSweep, readyState, wsTunnelId, tunnels, heard>>
  /\ UNCHANGED hostVars

\* Deadline with the pendingResponse === res and headersSent tests left out
DeadlineUnguarded(r) ==
  LET t == reqs[r].target IN
  /\ reqs[r].timer = "armed"
  /\ reqs[r].due <= now
  /\ reqs' = [reqs EXCEPT ![r] =
        [Complete(@, 504, "deadline", 0) EXCEPT !.timer = "fired", !.due = 0]]
  /\ tunnelObjs' = [tunnelObjs EXCEPT ![t].pendingResponse = NoRes]
  /\ UNCHANGED sent
  /\ UNCHANGED <<now, nextSweep, readyState, wsTunnelId, tunnels, heard>>
  /\ UNCHANGED hostVars

\* the setTimeout callback of request r
Deadline(r) ==
  LET t == reqs[r].target IN
  /\ reqs[r].timer = "armed"
  /\ reqs[r].due <= now
  /\ IF tunnelObjs[t].pendingResponse = r
       THEN /\ reqs' = [reqs EXCEPT ![r] =
                 [(IF ~headersSent(@) THEN Complete(@, 504, "deadline", 0) ELSE @)
                    EXCEPT !.timer = "fired", !.due = 0]]
            /\ tunnelObjs' = [tunnelObjs EXCEPT ![t].pendingResponse = NoRes]
       ELSE /\ reqs' = [reqs EXCEPT ![r].timer = "fired", ![r].due = 0]
            /\ UNCHANGED tunnelObjs
  /\ UNCHANGED sent
  /\ UNCHANGED <<now, nextSweep, readyState, wsTunnelId, tunnels, heard>>
  /\ UNCHANGED hostVars

\* res.on('finish') of request r
Finish(r) ==
  LET t == reqs[r].target IN
  /\ reqs[r].finish = "pending"
  /\ reqs' = [reqs EXCEPT ![r].finish = "emitted",
                          ![r].timer = IF @ = "armed" THEN "cleared" ELSE @,
                          ![r].due = 0]
  /\ tunnelObjs' = [tunnelObjs EXCEPT ![t].pendingResponse = NoRes]
  /\ UNCHANGED sent
  /\ UNCHANGED <<now, nextSweep, readyState, wsTunnelId, tunnels, heard>>
  /\ UNCHANGED hostVars

\* ---------------------------------------------------------------- reaper
\* now - tunnel.lastActivity > inactiveThreshold
IsInactive(t) == now - tunnelObjs[t].lastActivity > inactiveThreshold

\* the entries a sweep cleans up
Inactive == { id \in AllIds : Has(id) /\ IsInactive(tunnels[id]) }

\* the setInterval callback: one pass over the whole Map
Sweep ==
  /\ nextSweep <= now
  /\ nextSweep' = now + SweepInterval
  /\ readyState' = [c \in Conns |->
        IF \E id \in Inactive : tunnelObjs[tunnels[id]].socket = c
          THEN WsTerminate(readyState[c]) ELSE readyState[c]]
  /\ tunnels' = [id \in AllIds |-> IF id \in Inactive THEN NoTunnel ELSE tunnels[id]]
  /\ UNCHANGED sent
  /\ UNCHANGED <<now, wsTunnelId, tunnelObjs, reqs, heard>>
  /\ UNCHANGED hostVars

\* ----------------------------------------------------------------- clock
\* the times at which a timer callback is due
TimerDues ==
  {nextSweep} \cup {reqs[r].due : r \in {q \in 1..Len(reqs) : reqs[q].timer = "armed"}}

Earliest(S) == CHOOSE x \in S : \A y \in S : x <= y

\* time passes up to the next timer; a due callback runs before time moves on
Tick ==
  /\ Earliest(TimerDues) > now
  /\ Earliest(TimerDues) <= MaxTime
  /\ now' = Earliest(TimerDues)
  /\ UNCHANGED sent
  /\ heard' = [c \in Conns |-> FALSE]
  /\ UNCHANGED <<nextSweep, readyState, wsTunnelId, tunnels,
                 tunnelObjs, reqs>>
  /\ UNCHANGED hostVars

\* ============================================ the subdomain-addressing relay
\* src/unnamed/part_000.  Every connection gets a tunnelId of its own and an
\* entry in the Map at once; a register frame gives the entry a subdomain.
\* A connection stands for its tunnelId: hostTunnels[c] is the entry of the
\* connection c, and the Map iterates in the order of the connections.  The
\* relay writes no frame on registration: req of the connection event is an
\* http.IncomingMessage, req.get is not a function, and the TypeError is
\* caught by the handler's catch after tunnel.subdomain was assigned.

\* Number.prototype.toString(36)
Digits36 ==
  <<"0", "1", "2", "3", "4", "5", "6", "7", "8", "9", "a", "b", "c", "d", "e",
    "f", "g", "h", "i", "j", "k", "l", "m", "n", "o", "p", "q", "r", "s", "t",
    "u", "v", "w", "x", "y", "z">>
RECURSIVE ToString36(_)
ToString36(n) ==
  IF n < Len(Digits36) THEN <<Digits36[n + 1]>>
  ELSE ToString36(n \div Len(Digits36)) \o <<Digits36[(n % Len(Digits36)) + 1]>>

\* `${subdomain}-${Date.now().toString(36)}`
Suffixed(subdomain, t) == subdomain \o <<"-">> \o ToString36(t)

\* tunnelId.substring(0, 8) of the connection c, written with one letter and
\* the number of the connection
UuidOf(c) == <<"u", Digits36[c + 1]>>

\* the subdomains clients ask for, and the register frames that carry them
HostNames == { <<"f", "0">> }
HostRegisterFrames ==
  { [NoFrame EXCEPT !.type = "register", !.subdomain = n] :
      n \in HostNames \cup {NoName} }
HostFrames == HostRegisterFrames \cup ResponseFrames \cup OtherFrames

\* the Host headers of public requests: a tunnel host and the main domain
Hosts == { <<"f", "0", ".", "t">>, <<"t">> }

\* host.split('.')[0]
RECURSIVE LabelLen(_, _)
LabelLen(host, i) ==
  IF i <= Len(host) /\ host[i] # "." THEN 1 + LabelLen(host, i + 1) ELSE 0
FirstLabel(host) == SubSeq(host, 1, LabelLen(host, 1))

\* host.replace(/:\d+$/, ''): a trailing colon with digits is cut off
RECURSIVE DigitsAtEnd(_, _)
DigitsAtEnd(host, i) ==
  IF i >= 1 /\ host[i] \in Digit THEN 1 + DigitsAtEnd(host, i - 1) ELSE 0
StripPort(host) ==
  LET d == DigitsAtEnd(host, Len(host)) IN
  IF d > 0 /\ Len(host) > d /\ host[Len(host) - d] = ":"
    THEN SubSeq(host, 1, Len(host) - d - 1)
    ELSE host

\* the connections whose entry carries the subdomain, in the order of the Map
Holders(subdomain) ==
  { c \in Conns : hostTunnels[c] # NoEntry /\ hostTunnels[c].subdomain = subdomain }

\* Array.from(tunnels.values()).find(...) and the for-of lookup of the proxy
\* handler: the first entry with the subdomain
FirstHolder(subdomain) ==
  CHOOSE c \in Holders(subdomain) : \A d \in Holders(subdomain) : c <= d

\* wss.on('connection'): the entry is created with the connection
HostConnect(c) ==
  /\ readyState[c] = "NONE"
  /\ \A d \in Conns : d < c => readyState[d] # "NONE"
  /\ readyState' = [readyState EXCEPT ![c] = "OPEN"]
  /\ hostTunnels' = [hostTunnels EXCEPT ![c] =
        [socket |-> c, subdomain |-> NoName, lastActivity |-> now,
         pendingResponse |-> NoRes]]
  /\ UNCHANGED <<now, nextSweep, reqs, sent, heard, targetTunnel>>
  /\ UNCHANGED pathVars

\* the subdomain a register frame of connection c ends up with
HostRegisterName(c, data) ==
  LET subdomain == IF data.subdomain = NoName THEN UuidOf(c) ELSE data.subdomain
  IN  IF Holders(subdomain) # {} /\ FirstHolder(subdomain) # c
        THEN Suffixed(subdomain, now)
        ELSE subdomain

\* the client answers only request frames that were written to its channel
HostClientMaySend(c, data) ==
  data.type = "response" /\ data.answers # Unsolicited =>
    /\ data.answers <= Len(reqs)
    /\ reqs[data.answers].forwarded
    /\ targetTunnel[data.answers].socket = c

\* ws.on('message') of connection c
HostMessage(c, data) ==
  /\ readyState[c] = "OPEN"
  /\ HostClientMaySend(c, data)
  /\ IF data.type = "malformed" \/ hostTunnels[c] = NoEntry
       THEN \* JSON.parse throws, or if (!tunnel) return
            UNCHANGED <<hostTunnels, reqs>>
       ELSE IF data.type = "register"
         THEN /\ hostTunnels' = [hostTunnels EXCEPT
                    ![c].lastActivity = now,
                    ![c].subdomain = HostRegisterName(c, data)]
              /\ UNCHANGED reqs
       ELSE IF data.type = "response" /\ hostTunnels[c].pendingResponse # NoRes
         THEN LET res == hostTunnels[c].pendingResponse IN
              /\ hostTunnels' = [hostTunnels EXCEPT ![c].lastActivity = now,
                                                    ![c].pendingResponse = NoRes]
              \* the overridden res.end clears the timer
              /\ reqs' = [reqs EXCEPT ![res] =
                    [SendResponse(@, data) EXCEPT
                       !.timer = IF @ = "armed" THEN "cleared" ELSE @,
                       !.due = 0, !.finish = "none"]]
       ELSE /\ hostTunnels' = [hostTunnels EXCEPT ![c].lastActivity = now]
            /\ UNCHANGED reqs
  /\ heard' = [heard EXCEPT ![c] = TRUE]
  /\ UNCHANGED <<now, nextSweep, readyState, sent, targetTunnel>>
  /\ UNCHANGED pathVars

\* ws.on('close'): tunnels.delete(tunnelId)
HostCloseEvent(c) ==
  /\ readyState[c] = "CLOSING"
  /\ readyState' = [readyState EXCEPT ![c] = "CLOSED"]
  /\ hostTunnels' = [hostTunnels EXCEPT ![c] = NoEntry]
  /\ UNCHANGED <<now, nextSweep, reqs, sent, heard, targetTunnel>>
  /\ UNCHANGED pathVars

NoTarget == [socket |-> 0, subdomain |-> NoName, pendingResponse |-> NoRes]

\* app.use('*'): the proxy handler, for one public request to the host;
\* sendOk tells whether targetTunnel.socket.send returns or throws
HostRequest(host, sendOk) ==
  LET r == Len(reqs) + 1
      subdomain == FirstLabel(host)
      rq == NewRequest(host)
  IN
  /\ r <= MaxReqs
  /\ IF subdomain = StripPort(host) \/ Holders(subdomain) = {}
       THEN \* the main domain, or no tunnel with the subdomain
            /\ sendOk
            /\ reqs' = Append(reqs, Complete(rq, 404, "router", 0))
            /\ targetTunnel' = Append(targetTunnel, NoTarget)
            /\ UNCHANGED sent
       ELSE LET c == FirstHolder(subdomain)
                \* targetTunnel = { tunnelId, ...tunnel }: a new object
                copy == [socket |-> c, subdomain |-> hostTunnels[c].subdomain,
                         pendingResponse |-> hostTunnels[c].pendingResponse]
            IN
            IF readyState[c] # "OPEN"
              THEN /\ sendOk
                   /\ reqs' = Append(reqs, Complete(rq, 503, "router", 0))
                   /\ targetTunnel' = Append(targetTunnel, copy)
                   /\ UNCHANGED sent
            ELSE IF sendOk
              THEN /\ targetTunnel' =
                        Append(targetTunnel, [copy EXCEPT !.pendingResponse = r])
                   /\ sent' = sent \cup {RequestFrame(c, r)}
                   /\ reqs' = Append(reqs, [rq EXCEPT !.forwarded = TRUE,
                                                      !.timer = "armed",
                                                      !.due = now + RequestTimeout])
              ELSE /\ targetTunnel' =
                        Append(targetTunnel, [copy EXCEPT !.pendingResponse = NoRes])
                   /\ UNCHANGED sent
                   /\ reqs' = Append(reqs, Complete(rq, 502, "router", 0))
  /\ UNCHANGED <<now, nextSweep, readyState, heard, hostTunnels>>
  /\ UNCHANGED pathVars

\* the setTimeout callback of request r: it tests the targetTunnel object of
\* its own request and writes 504 without a headersSent test
HostDeadline(r) ==
  /\ reqs[r].timer = "armed"
  /\ reqs[r].due <= now
  /\ IF targetTunnel[r].pendingResponse = r
       THEN /\ reqs' = [reqs EXCEPT ![r] =
                 [Complete(@, 504, "deadline", 0) EXCEPT
                    !.timer = "fired", !.due = 0, !.finish = "none"]]
            /\ targetTunnel' = [targetTunnel EXCEPT ![r].pendingResponse = NoRes]
       ELSE /\ reqs' = [reqs EXCEPT ![r].timer = "fired", ![r].due = 0]
            /\ UNCHANGED targetTunnel
  /\ UNCHANGED <<now, nextSweep, readyState, sent, heard, hostTunnels>>
  /\ UNCHANGED pathVars

\* the entries a sweep of the subdomain relay cleans up
HostInactive ==
  { c \in Conns : hostTunnels[c] # NoEntry
                  /\ now - hostTunnels[c].lastActivity > inactiveThreshold }

\* the setInterval callback of the subdomain relay
HostSweep ==
  /\ nextSweep <= now
  /\ nextSweep' = now + SweepInterval
  /\ readyState' = [c \in Conns |->
        IF c \in HostInactive THEN WsTerminate(readyState[c]) ELSE readyState[c]]
  /\ hostTunnels' = [c \in Conns |->
        IF c \in HostInactive THEN NoEntry ELSE hostTunnels[c]]
  /\ UNCHANGED <<now, reqs, sent, heard, targetTunnel>>
  /\ UNCHANGED pathVars

\* ------------------------------------------------------- specifications
\* the connections whose socket has not reached CLOSED
Live == { c \in Conns : readyState[c] \in {"OPEN", "CLOSING"} }

\* One step of the relay in an environment of the connections conns, of which
\* at most live are connected at once and whose clients send the frames of
\* frames[c], that issues at most nReqs public requests for the URLs of urls
\* while the clock runs through at most periods reaper periods.
Relay(conns, live, frames, urls, nReqs, periods) ==
  \/ \E c \in conns : Cardinality(Live) < live /\ Connect(c)
  \/ \E c \in conns : \E data \in frames[c], uuid \in UuidPrefixes :
        Message(c, data, uuid)
  \/ \E c \in conns : ChannelDown(c)
  \/ \E c \in conns : CloseEvent(c)
  \/ \E url \in urls, sendOk \in BOOLEAN :
        Len(reqs) < nReqs /\ Request(url, sendOk)
  \/ \E r \in 1..Len(reqs) : Deadline(r)
  \/ \E r \in 1..Len(reqs) : Finish(r)
  \/ Sweep
  \/ Earliest(TimerDues) <= periods * SweepInterval /\ Tick

\* the environment of clients that connect in any number, send every frame
\* and of callers that ask for every URL of the model
Env(conns, nReqs, periods) ==
  Relay(conns, MaxConns, [c \in conns |-> ClientFrames], Urls, nReqs, periods)

\* one client, concurrent public requests, the clock of one reaper period
Next == Env(1..OneConn, MaxReqs, ShortPeriods)
Spec == Init /\ [][Next]_vars

\* one client, one public request, the clock runs past the idle threshold
NextReaper == Env(1..OneConn, OneReq, MaxSweeps)
SpecReaper == Init /\ [][NextReaper]_vars

\* two clients, one public request, the clock of one reaper period
NextTwoConns == Env(1..TwoConns, OneReq, ShortPeriods)
SpecTwoConns == Init /\ [][NextTwoConns]_vars

\* clients that all ask for the identifier f0; the second one also sends
\* response frames of its own accord
RegisterF0 == [NoFrame EXCEPT !.type = "register", !.subdomain = <<"f", "0">>]
StaleFrames ==
  [c \in Conns |-> IF c = TwoConns
                     THEN {RegisterF0, [NoFrame EXCEPT !.type = "response"]}
                     ELSE {RegisterF0}]
StaleUrls == { <<"/", "t", "/", "f", "0", "/", "x">> }

\* three clients, two of them connected at once, that compete for one
\* identifier; one public request; the clock runs past the idle threshold
NextStale == Relay(Conns, TwoConns, StaleFrames, StaleUrls, OneReq, MaxSweeps)
SpecStale == Init /\ [][NextStale]_vars

\* the subdomain relay with three clients and one public request, the clock
\* of one reaper period
NextHost ==
  \/ \E c \in Conns : HostConnect(c)
  \/ \E c \in Conns, data \in HostFrames : HostMessage(c, data)
  \/ \E c \in Conns : ChannelDown(c)
  \/ \E c \in Conns : HostCloseEvent(c)
  \/ \E host \in Hosts, sendOk \in BOOLEAN :
        Len(reqs) < OneReq /\ HostRequest(host, sendOk)
  \/ \E r \in 1..Len(reqs) : HostDeadline(r)
  \/ HostSweep
  \/ Earliest(TimerDues) <= ShortPeriods * SweepInterval /\ Tick
SpecHost == Init /\ [][NextHost]_vars

\* ================================================================ claims
Reqs == 1..Len(reqs)

\* the call r was forwarded and its caller still waits
InFlight(r) == r \in Reqs /\ reqs[r].forwarded /\ reqs[r].writes = 0

\* a response frame of the client in answer to request a is handled
AnswerHandled(a) ==
  \E c \in Conns, data \in ResponseFrames, uuid \in UuidPrefixes :
    data.answers = a /\ Message(c, data, uuid)

\* the pending slots of all tunnel entries
PendingSlots == [t \in 1..Len(tunnelObjs) |-> tunnelObjs[t].pendingResponse]

\* every request frame so far was written to its channel without an error
AllSendsOk == \A q \in Reqs : reqs[q].status # 502

\* C1: when two requests forwarded over the same tunnel are in flight at
\* once, a response frame of the client completes the caller it answers and
\* no other caller.
C1_OwnReply ==
  [][\A a \in Reqs :
       ( /\ InFlight(a)
         /\ \E b \in Reqs \ {a} : InFlight(b) /\ reqs[b].target = reqs[a].target
         /\ AnswerHandled(a) )
       => /\ reqs'[a].writes = 1 /\ reqs'[a].reply = a
          /\ \A b \in Reqs \ {a} : reqs'[b] = reqs[b]]_vars

\* C2: a call that was pending when its session's channel closed has a
\* gateway failure (502 or 504) once its deadline has passed; stated for the
\* moment after which nothing can complete the call any more, and for runs in
\* which no write of a request frame failed.
C2_ClosedCallsFail ==
  \A r \in Reqs :
    ( /\ AllSendsOk
      /\ reqs[r].forwarded
      /\ readyState[tunnelObjs[reqs[r].target].socket] = "CLOSED"
      /\ reqs[r].timer = "fired"
      /\ reqs[r].by \notin {"response", "fallback"} )
    => reqs[r].status \in {502, 504}

\* C3: a forwarded call that has no response when its deadline fires is
\* completed with 504 by the deadline callback (stated for runs in which no
\* write of a request frame failed).
C3_DeadlineGives504 ==
  [][\A r \in Reqs :
       (AllSendsOk /\ InFlight(r) /\ Deadline(r)) => reqs'[r].status = 504]_vars

\* C4: a response frame sent in answer to a call that its deadline has failed
\* with 504 completes no caller and changes no pending slot.
C4_LateResponseDiscarded ==
  [][\A a \in Reqs :
       (reqs[a].by = "deadline" /\ AnswerHandled(a))
       => reqs' = reqs /\ PendingSlots' = PendingSlots]_vars

\* C5: no HTTP response is completed more than once.
C5_CompletedOnce == \A r \in Reqs : reqs[r].writes <= 1

\* a response completed by a response frame whose deadline callback ran later
C5_Witness ==
  \E r \in Reqs :
    reqs[r].by \in {"response", "fallback"} /\ reqs[r].timer = "fired"

\* the registry entries whose channel is the connection c
OwnedBy(c) == { id \in AllIds : Has(id) /\ tunnelObjs[tunnels[id]].socket = c }

\* a register frame of connection c that asks for the identifier id is handled
RegisterHandled(c, id) ==
  \E data \in RegisterFrames, uuid \in UuidPrefixes :
    RegisterName(data, uuid) = id /\ Message(c, data, uuid)

\* C6: a register frame for an identifier present in the registry fails: an
\* error frame goes to the registrant, the registry is unchanged, and the
\* holder keeps its entry, its channel state and its pending call.
C6_ConflictLeavesHolder ==
  [][\A c \in Conns, id \in AllIds :
       (Has(id) /\ RegisterHandled(c, id))
       => LET t == tunnels[id] IN
          /\ ErrorFrame(c, id) \in sent'
          /\ tunnels' = tunnels
          /\ tunnelObjs' = tunnelObjs
          /\ readyState'[tunnelObjs[t].socket] = readyState[tunnelObjs[t].socket]]_vars

\* C7: a register frame on a connection that is already registered is
\* rejected with an error frame and leaves the registry unchanged, so that a
\* connection never owns more than one registry entry.
C7_RegistersOnce ==
  [][\A c \in Conns, id \in AllIds :
       (wsTunnelId[c] # NoName /\ RegisterHandled(c, id))
       => /\ ErrorFrame(c, id) \in sent'
          /\ tunnels' = tunnels
          /\ Cardinality(OwnedBy(c)') <= 1]_vars

\* C8: no forwarded call is open on a tunnel entry that is no longer in the
\* registry.
C8_NoOrphanCall ==
  \A r \in Reqs :
    InFlight(r) => \E id \in AllIds : tunnels[id] = reqs[r].target

\* C9: a sweep removes an entry and terminates its channel if its idle time
\* exceeds the threshold, and neither removes the entry nor touches its
\* channel otherwise.
C9_SweepIffIdle ==
  [][Sweep =>
       \A id \in AllIds :
         Has(id) =>
           LET t == tunnels[id]
               c == tunnelObjs[t].socket
           IN  IF IsInactive(t)
                 THEN tunnels'[id] = NoTunnel /\ readyState'[c] # "OPEN"
                 ELSE tunnels'[id] = t /\ readyState'[c] = readyState[c]]_vars

\* the identifier segment of a /t/<id>/... URL
RECURSIVE SegLen(_, _)
SegLen(s, i) == IF i <= Len(s) /\ s[i] # "/" THEN 1 + SegLen(s, i + 1) ELSE 0
UrlId(url) == SubSeq(url, 4, 3 + SegLen(url, 4))
IsTunnelUrl(url) == Len(url) >= 4 /\ SubSeq(url, 1, 3) = <<"/", "t", "/">>

\* C10: a request to /t/<id>/... whose <id> is not a key of the registry is
\* answered with 404, writes no frame and changes no pending slot.
C10_UnknownIs404 ==
  [][\A url \in Urls, sendOk \in BOOLEAN :
       (IsTunnelUrl(url) /\ ~Has(UrlId(url)) /\ Request(url, sendOk))
       => /\ reqs'[Len(reqs')].status = 404
          /\ sent' = sent
          /\ PendingSlots' = PendingSlots]_vars

\* a 404 for an unregistered identifier while a call is pending on a tunnel
C10_Witness ==
  \E r \in Reqs :
    /\ reqs[r].status = 404
    /\ IsTunnelUrl(reqs[r].url) /\ ~Has(UrlId(reqs[r].url))
    /\ \E q \in Reqs :
         InFlight(q) /\ tunnelObjs[reqs[q].target].pendingResponse = q

\* the proxy handler routes the URL to an entry of the registry
Routed(url) == UrlMatch(url).matched /\ Has(UrlMatch(url).id)

\* the tunnel entry the proxy handler routes the URL to
TargetOf(url) == TunnelOf(UrlMatch(url).id)

C12_FailedWriteLeavesNoTrace ==
  [][\A url \in Urls :
       ( /\ Routed(url)
         /\ readyState[tunnelObjs[TargetOf(url)].socket] = "OPEN"
         /\ Request(url, FALSE) )
       => /\ reqs'[Len(reqs')].status = 502
          /\ reqs'[Len(reqs')].timer = "none"
          /\ PendingSlots' = PendingSlots]_vars

\* the frame is one the relay has nothing to do with: it does not parse, its
\* type is neither register nor response, or it is a response while the
\* entry of the connection has no pending call (or the connection has none)
Unmatched(c, data) ==
  \/ data.type \notin {"register", "response"}
  \/ /\ data.type = "response"
     /\ LET t == TunnelOf(wsTunnelId[c]) IN
          t = NoTunnel \/ tunnelObjs[t].pendingResponse = NoRes

\* C13: a frame that is malformed, of an unrecognized type, or a response
\* without a pending call is absorbed: the channel stays as it is, the
\* registry keeps its entries and no HTTP caller is completed.
C13_UnmatchedAbsorbed ==
  [][\A c \in Conns, data \in ClientFrames, uuid \in UuidPrefixes :
       (Unmatched(c, data) /\ Message(c, data, uuid))
       => /\ readyState' = readyState
          /\ tunnels' = tunnels
          /\ reqs' = reqs
          /\ PendingSlots' = PendingSlots]_vars

\* a response frame was handled on an open, registered channel although no
\* call was pending: the entry was registered at time 0 (a call forwarded at
\* time 0 still waits on it), its lastActivity is later, and no call on it
\* was ever completed by a response frame
C13_Witness ==
  \E r \in Reqs :
    LET t == reqs[r].target IN
    /\ InFlight(r) /\ reqs[r].timer = "armed" /\ reqs[r].due = RequestTimeout
    /\ tunnelObjs[t].lastActivity > 0
    /\ readyState[tunnelObjs[t].socket] = "OPEN"
    /\ \A q \in Reqs :
         reqs[q].target = t => reqs[q].by \notin {"response", "fallback"}

\* the calls in flight whose request frame went to connection c
InFlightOn(c) ==
  { r \in Reqs : InFlight(r) /\ tunnelObjs[reqs[r].target].socket = c }

\* no connection has registered more than once
SingleRegistrations ==
  \A t1, t2 \in 1..Len(tunnelObjs) :
    tunnelObjs[t1].socket = tunnelObjs[t2].socket => t1 = t2

\* the status a response frame asks for: data.statusCode || 200
StatusOf(data) == IF data.statusCode = 0 THEN 200 ELSE data.statusCode

\* C14: when exactly one call is in flight on a registered, open session and
\* the response frame for it is handled before its deadline, the caller is
\* completed with the frame's status (200 when absent) and the slot of the
\* session is empty afterwards; a caller completed by a response frame keeps
\* its status for ever, so no 504 follows (stated for runs in which no
\* connection registered twice and no write of a request frame failed).
C14_SingleCallAnswered ==
  [][/\ \A c \in Conns, data \in ResponseFrames, uuid \in UuidPrefixes :
          LET a == data.answers IN
          ( /\ SingleRegistrations /\ AllSendsOk
            /\ a # Unsolicited /\ data.headersOk
            /\ InFlightOn(c) = {a}
            /\ reqs[a].timer = "armed" /\ now < reqs[a].due
            /\ Message(c, data, uuid) )
          => /\ reqs'[a].writes = 1
             /\ reqs'[a].status = StatusOf(data)
             /\ tunnelObjs'[reqs[a].target].pendingResponse = NoRes
     /\ \A r \in Reqs :
          reqs[r].by = "response" => reqs'[r].status = reqs[r].status]_vars

\* C17: a response frame completes a call only if the request frame of that
\* call was written to the connection the response arrives on, and a response
\* frame on a connection that has not registered completes no caller and
\* changes no pending slot and no lastActivity.
C17_OwnChannelOnly ==
  [][\A c \in Conns, data \in ResponseFrames, uuid \in UuidPrefixes :
       Message(c, data, uuid)
       => /\ \A r \in Reqs :
               reqs'[r] # reqs[r] => RequestFrame(c, r) \in sent
          /\ wsTunnelId[c] = NoName
               => reqs' = reqs /\ tunnelObjs' = tunnelObjs]_vars

\* connection c is a registered session: its identifier names an entry of
\* the registry whose channel is c
Registered(c) ==
  /\ wsTunnelId[c] # NoName /\ Has(wsTunnelId[c])
  /\ tunnelObjs[tunnels[wsTunnelId[c]]].socket = c

\* C18: every frame received from a registered session, whatever its type,
\* sets the lastActivity of the session to the time of receipt: when a frame
\* of a registered session arrived at this instant, the lastActivity of its
\* entry is this instant.
C18_EveryFrameIsActivity ==
  \A c \in Conns :
    (Registered(c) /\ heard[c])
    => tunnelObjs[tunnels[wsTunnelId[c]]].lastActivity = now

\* C20: the finish handler of a completed response leaves the pending slot
\* alone when the slot holds a different request.
C20_FinishKeepsOthers ==
  [][\A r \in Reqs :
       Finish(r)
       => \A t \in 1..Len(tunnelObjs) :
            tunnelObjs[t].pendingResponse \notin {NoRes, r}
            => tunnelObjs'[t].pendingResponse = tunnelObjs[t].pendingResponse]_vars

\* C19: the close event of a connection removes no registry entry whose
\* channel is a different connection.
C19_CloseKeepsOthers ==
  [][\A a \in Conns :
       CloseEvent(a)
       => \A id \in AllIds :
            (Has(id) /\ tunnelObjs[tunnels[id]].socket # a)
            => tunnels'[id] = tunnels[id]]_vars

\* C15 (part_000): when a request was forwarded to the session whose
\* subdomain matches the host and the response frame for it is handled before
\* the deadline, the caller is completed with the status of the frame (200
\* when absent).
C15_HostResponseCompletes ==
  [][\A c \in Conns, data \in ResponseFrames :
       LET a == data.answers IN
       ( /\ a # Unsolicited /\ data.headersOk
         /\ InFlight(a) /\ reqs[a].timer = "armed" /\ now < reqs[a].due
         /\ HostMessage(c, data) )
       => /\ reqs'[a].writes = 1
          /\ reqs'[a].status = StatusOf(data)]_vars

\* C16 (part_000): no two entries of the Map carry the same non-null
\* subdomain.
C16_AliasUnique ==
  \A c, d \in Conns :
    ( /\ c # d
      /\ hostTunnels[c] # NoEntry /\ hostTunnels[d] # NoEntry
      /\ hostTunnels[c].subdomain # NoName )
    => hostTunnels[c].subdomain # hostTunnels[d].subdomain

\* C21: every identifier that registration accepted is routable: a request to
\* /t/<id>/<rest>, where a registered frame for <id> went to the connection
\* that holds the entry of <id> and the channel of that connection is open,
\* is resolved to that entry and never answered with 404; it is forwarded
\* when the write of the request frame succeeds.
C21_AcceptedIsRoutable ==
  [][\A url \in Urls, sendOk \in BOOLEAN :
       ( /\ IsTunnelUrl(url) /\ Has(UrlId(url))
         /\ LET c == tunnelObjs[tunnels[UrlId(url)]].socket IN
              /\ RegisteredFrame(c, UrlId(url)) \in sent
              /\ readyState[c] = "OPEN"
         /\ Request(url, sendOk) )
       => /\ reqs'[Len(reqs')].status # 404
          /\ reqs'[Len(reqs')].target = tunnels[UrlId(url)]
          /\ sendOk => reqs'[Len(reqs')].forwarded]_vars

====
